---- MODULE Spec2Model ----
(***************************************************************************)
(* Model of the execution tracer of src/src/index.ts.                      *)
(*                                                                         *)
(* The module state of index.ts is the Record Log (`log`) and the Trace    *)
(* State Table (`traceStates`).  Every exported function runs to           *)
(* completion, so each one is one atomic action.                           *)
(*                                                                         *)
(* Values that no guard ever reads (timestamps ts/at, source, meta) are    *)
(* not carried in the records.  A JavaScript value is modelled by the      *)
(* part of it the code inspects:                                           *)
(*   - a payload by its kind ("object", "null", "string", ...);            *)
(*   - a trace_id / env_id by a number: 0 is a missing or empty id (a      *)
(*     falsy value), k > 0 is the id string produced by the k-th           *)
(*     successful createEnv, or a string that no createEnv produced, and   *)
(*     -1 is a truthy value that is not a string (a number);               *)
(*   - a step_id by a record [k, v]: k = "int" is the integer v,           *)
(*     k = "frac" is the number v + 0.5, k = "nan" is NaN, k = "str" is a  *)
(*     value whose typeof is not 'number'.                                 *)
(*                                                                         *)
(* The id strings `tr_<Date.now()>_<Math.random()>` are modelled as an     *)
(* allocator that never returns the same string twice (nextId).            *)
(***************************************************************************)
EXTENDS Integers, Sequences, FiniteSets, TLC

\* log, traceStates: the module state of index.ts
\* nextId: number of id pairs stored so far
\* last: outcome of the most recent call
\* consumed: the Contexts passed to the step calls that returned
\* issued: the Contexts returned by createEnv and step
\* cleared: the Contexts that had been issued when clearTraces last ran
\* held: an array returned by replay or getAllTraces that a caller has kept,
\*       with the elements it had when it was returned
VARIABLES log, traceStates, nextId, last, consumed, issued, cleared, held

vars == <<log, traceStates, nextId, last, consumed, issued, cleared, held>>

\* the number of records appended so far: one for each createEnv that
\* returned and one for each step that returned
Appended == nextId + Cardinality(consumed)

(***************************************************************************)
(* Bounds of the model.                                                    *)
(***************************************************************************)
\* number of createEnv calls that succeed in one behaviour
MaxTraces == 2
\* number of records appended to the log in one behaviour
MaxLog == 4

Nodes == {"validate", "send"}

Statuses == {"enter", "exit", "error"}

Payloads == {"object", "null", "string", "number"}

(***************************************************************************)
(* Values.                                                                 *)
(***************************************************************************)
IntId(n) == [k |-> "int", v |-> n]

NoStepId == [k |-> "str", v |-> 0]

\* the frozen Context object {trace_id, env_id, step_id}
Context(t, e, n) ==
    [kind |-> "object", trace_id |-> t, env_id |-> e, step_id |-> IntId(n)]

\* step(null, ...)
NullContext ==
    [kind |-> "null", trace_id |-> 0, env_id |-> 0, step_id |-> NoStepId]

NoContext ==
    [kind |-> "none", trace_id |-> 0, env_id |-> 0, step_id |-> NoStepId]

StepIdInputs ==
    {IntId(n) : n \in (0 - 1)..(MaxLog - 1)}
        \cup {[k |-> "frac", v |-> 0], [k |-> "nan", v |-> 0], NoStepId}

\* every Context over the ids and step_id values of the model
Contexts ==
    {NullContext}
        \cup [kind : {"object"}, trace_id : (0 - 1)..MaxTraces,
              env_id : (0 - 1)..MaxTraces, step_id : StepIdInputs]

\* the Contexts passed to step: null, without trace_id, without env_id, with
\* a trace_id or env_id that is not a string, with the env_id of another
\* trace, with the env_id that createEnv paired with the trace_id and an
\* integer step_id (current, stale, ahead), and with a malformed step_id; a
\* trace_id names a live trace, a cleared one or one not created yet
ContextInputs ==
    {NullContext, Context(0, 1, 0), Context(1, 0, 0),
     Context(0 - 1, 1, 0), Context(1, 0 - 1, 0)}
        \cup {Context(t, (t % MaxTraces) + 1, 0) : t \in 1..MaxTraces}
        \cup {Context(t, t, n) : t \in 1..MaxTraces, n \in 0..(MaxLog - 1)}
        \cup {[kind |-> "object", trace_id |-> 1, env_id |-> 1, step_id |-> s] :
                 s \in StepIdInputs}

\* slip: the record is stored without the env_id
EnvRecord_NoEnvId(t, e, p) ==
    [type |-> "env", trace_id |-> t, env_id |-> 0, payload |-> p]

EnvRecord(t, e, p) ==
    [type |-> "env", trace_id |-> t, env_id |-> e, payload |-> p]

\* slip: the record is stored without the env_id
StepRecord_NoEnvId(t, e, n, node, status) ==
    [type |-> "step", trace_id |-> t, env_id |-> 0, step_id |-> n,
     node |-> node, status |-> status]

StepRecord(t, e, n, node, status) ==
    [type |-> "step", trace_id |-> t, env_id |-> e, step_id |-> n,
     node |-> node, status |-> status]

(***************************************************************************)
(* JavaScript predicates used by the guards.                               *)
(***************************************************************************)
\* typeof payload
TypeOfPayload(p) ==
    CASE p = "object" -> "object"
      [] p = "null" -> "object"
      [] p = "string" -> "string"
      [] p = "number" -> "number"

\* !payload (the string and the number of Payloads are non-empty, non-zero)
FalsyPayload(p) == p = "null"

\* typeof ctx.step_id === 'number'
IsNumber(s) == s.k \in {"int", "frac", "nan"}

\* ctx.step_id < 0 (NaN < 0 is false; v + 0.5 < 0 iff v < 0)
LessThanZero(s) == s.k \in {"int", "frac"} /\ s.v < 0

\* ctx.step_id !== traceState.lastStepId (lastStepId is an integer)
NotStrictEqual(s, n) == ~(s.k = "int" /\ s.v = n)

(***************************************************************************)
(* createEnv                                                               *)
(***************************************************************************)
\* the trace_id and env_id strings drawn at the top of createEnv: the k-th
\* pair stored is written k (the strings are built from Date.now() and
\* Math.random() and are taken never to repeat; createEnv itself does not
\* look the trace_id up before storing under it)
NewTraceId == nextId + 1

NewEnvId == nextId + 1

\* slip: only the typeof test is made (typeof null is 'object')
PayloadRejected_TypeofOnly(payload) == TypeOfPayload(payload) # "object"

PayloadRejected(payload) ==
    FalsyPayload(payload) \/ TypeOfPayload(payload) # "object"

\* slip: the step counter of a new trace starts at 1
NewTraceState_StartsAtOne(env_id) ==
    [nodes |-> <<>>, lastStepId |-> 1, env_id |-> env_id,
     hasCriticalError |-> FALSE]

NewTraceState(env_id) ==
    [nodes |-> <<>>, lastStepId |-> 0, env_id |-> env_id,
     hasCriticalError |-> FALSE]

MapSet(m, key, val) ==
    [x \in (DOMAIN m) \cup {key} |-> IF x = key THEN val ELSE m[x]]

\* an array: either the log array of the module itself, whose elements are
\* those of the log at any time, or an array of its own
LogArray == [live |-> TRUE, items |-> <<>>]

\* a new array with the given elements (filter, spread)
NewArray(items) == [live |-> FALSE, items |-> items]

\* the elements read through an array
Elements(array) == IF array.live THEN log ELSE array.items

\* the statistics of a call that returns none
NoStats == [totalRecords |-> 0, activeTraces |-> 0, traces |-> <<>>]

\* the outcome of a call: the kind of the Error thrown ("none" when the call
\* returns), the Context returned (createEnv, step), the records returned
\* (replay) and the statistics returned (getStats)
Call(op, err, ret, records) ==
    [op |-> op, err |-> err, ret |-> ret, records |-> records,
     stats |-> NoStats, array |-> NewArray(records), ids |-> <<>>]

createEnv(payload) ==
    /\ nextId < MaxTraces
    /\ Appended < MaxLog
    /\ IF PayloadRejected(payload)
       THEN /\ UNCHANGED <<log, traceStates, nextId>>
            /\ last' = Call("createEnv", "InvalidPayload", NoContext, <<>>)
       ELSE /\ log' = Append(log, EnvRecord(NewTraceId, NewEnvId, payload))
            /\ traceStates' =
                   MapSet(traceStates, NewTraceId, NewTraceState(NewEnvId))
            /\ nextId' = nextId + 1
            /\ last' = Call("createEnv", "none",
                            Context(NewTraceId, NewEnvId, 0), <<>>)
    /\ issued' = IF PayloadRejected(payload)
                 THEN issued
                 ELSE issued \cup {Context(NewTraceId, NewEnvId, 0)}
    /\ UNCHANGED <<consumed, cleared, held>>

(***************************************************************************)
(* step                                                                    *)
(***************************************************************************)
IdleNode == [currentStatus |-> "idle", lastStepId |-> 0 - 1]

\* Guard 1
Guard1(ctx) ==
    IF ctx.kind # "object" THEN "InvalidContext"
    ELSE IF ctx.trace_id = 0 \/ ctx.env_id = 0 THEN "InvalidContext"
    ELSE "none"

\* Guard 2
Guard2(ctx) ==
    IF ctx.trace_id \notin DOMAIN traceStates THEN "UnknownTrace" ELSE "none"

\* slip: the env_id is looked up among all traces, not compared with the
\* one stored for this trace
Guard3_AnyKnownEnv(ctx, traceState) ==
    IF \A t \in DOMAIN traceStates : traceStates[t].env_id # ctx.env_id
    THEN "EnvMismatch"
    ELSE "none"

\* Guard 3
Guard3(ctx, traceState) ==
    IF ctx.env_id # traceState.env_id THEN "EnvMismatch" ELSE "none"

\* slip: the step_id is validated but not compared with lastStepId
Guard4_NoSequenceCheck(ctx, traceState) ==
    IF ~IsNumber(ctx.step_id) \/ LessThanZero(ctx.step_id)
    THEN "InvalidStepId"
    ELSE "none"

\* Guard 4
Guard4(ctx, traceState) ==
    IF ~IsNumber(ctx.step_id) \/ LessThanZero(ctx.step_id)
    THEN "InvalidStepId"
    ELSE IF NotStrictEqual(ctx.step_id, traceState.lastStepId)
    THEN "OutOfSequence"
    ELSE "none"

\* slip: the terminal-error flag of any trace locks every trace
Guard5_AnyTrace(traceState) ==
    IF \E t \in DOMAIN traceStates : traceStates[t].hasCriticalError
    THEN "TraceTerminated"
    ELSE "none"

\* slip: the terminal-error lock is not checked
Guard5_NoLock(traceState) == "none"

\* Guard 5
Guard5(traceState) ==
    IF traceState.hasCriticalError THEN "TraceTerminated" ELSE "none"

\* slip: a node that is not in the table replaces the table
WithNode_ReplacesTable(nodes, node) ==
    IF node \notin DOMAIN nodes THEN MapSet(<<>>, node, IdleNode) ELSE nodes

\* Get or create node state
WithNode(nodes, node) ==
    IF node \notin DOMAIN nodes THEN MapSet(nodes, node, IdleNode) ELSE nodes

\* slip: exit is not checked against the node's status
Guard6_NoExitCheck(currentStatus, status) ==
    IF status = "enter"
    THEN IF currentStatus = "entered" THEN "DoubleEnter" ELSE "none"
    ELSE IF status = "exit"
    THEN "none"
    ELSE IF currentStatus # "entered" THEN "ErrorWithoutEnter" ELSE "none"

\* Guard 6
Guard6(currentStatus, status) ==
    IF status = "enter"
    THEN IF currentStatus = "entered" THEN "DoubleEnter" ELSE "none"
    ELSE IF status = "exit"
    THEN IF currentStatus # "entered" THEN "ExitWithoutEnter" ELSE "none"
    ELSE IF status = "error"
    THEN IF currentStatus # "entered" THEN "ErrorWithoutEnter" ELSE "none"
    ELSE "none"

\* slip: the error branch does not set the flag
CriticalAfter_NeverSet(traceState, status) == traceState.hasCriticalError

\* traceState.hasCriticalError = true inside the error branch of guard 6
CriticalAfter(traceState, status) ==
    IF status = "error" THEN TRUE ELSE traceState.hasCriticalError

\* slip: the step counter is advanced by two
NewStepId_SkipsOne(ctx) == ctx.step_id.v + 2

NewStepId(ctx) == ctx.step_id.v + 1

\* slip: an error leaves the node entered
NextStatus_ErrorStaysEntered(status) ==
    IF status = "enter" THEN "entered"
    ELSE IF status = "exit" THEN "exited" ELSE "entered"

\* slip: an exit leaves the node entered
NextStatus_ExitStaysEntered(status) ==
    IF status = "enter" THEN "entered"
    ELSE IF status = "exit" THEN "entered" ELSE "errored"

NextStatus(status) ==
    IF status = "enter" THEN "entered"
    ELSE IF status = "exit" THEN "exited" ELSE "errored"

\* slip: the terminal-error lock is tested before the step_id
ContextError_LockFirst(ctx) ==
    LET g1 == Guard1(ctx) IN
    IF g1 # "none" THEN g1
    ELSE LET g2 == Guard2(ctx) IN
    IF g2 # "none" THEN g2
    ELSE LET traceState == traceStates[ctx.trace_id]
             g3 == Guard3(ctx, traceState)
             g5 == Guard5(traceState)
         IN IF g3 # "none" THEN g3
            ELSE IF g5 # "none" THEN g5
            ELSE Guard4(ctx, traceState)

\* the kind of the first of guards 1 to 5 that throws, "none" when all pass
ContextError(ctx) ==
    LET g1 == Guard1(ctx) IN
    IF g1 # "none" THEN g1
    ELSE LET g2 == Guard2(ctx) IN
    IF g2 # "none" THEN g2
    ELSE LET traceState == traceStates[ctx.trace_id]
             g3 == Guard3(ctx, traceState)
             g4 == Guard4(ctx, traceState)
         IN IF g3 # "none" THEN g3
            ELSE IF g4 # "none" THEN g4
            ELSE Guard5(traceState)

\* the kind of the first guard that throws, "none" when the step is admitted
StepError(ctx, node, status) ==
    LET e == ContextError(ctx) IN
    IF e # "none" THEN e
    ELSE Guard6(WithNode(traceStates[ctx.trace_id].nodes, node)[node]
                    .currentStatus, status)

Guard6Kinds == {"DoubleEnter", "ExitWithoutEnter", "ErrorWithoutEnter"}

\* the Trace State when guard 6 throws: the node entry has been created
RejectedAtGuard6(traceState, node) ==
    [traceState EXCEPT !.nodes = WithNode(traceState.nodes, node)]

\* slip: the node is given the step_id of the Context, not the new one
Admitted_NodeGetsOldStepId(traceState, ctx, node, status) ==
    [traceState EXCEPT
        !.nodes = MapSet(traceState.nodes, node,
                         [currentStatus |-> NextStatus(status),
                          lastStepId |-> ctx.step_id.v]),
        !.lastStepId = NewStepId(ctx),
        !.hasCriticalError = CriticalAfter(traceState, status)]

\* slip: the trace's step counter is not advanced
Admitted_KeepsLastStepId(traceState, ctx, node, status) ==
    [traceState EXCEPT
        !.nodes = MapSet(traceState.nodes, node,
                         [currentStatus |-> NextStatus(status),
                          lastStepId |-> NewStepId(ctx)]),
        !.hasCriticalError = CriticalAfter(traceState, status)]

\* the Trace State after an admitted step
Admitted(traceState, ctx, node, status) ==
    [traceState EXCEPT
        !.nodes = MapSet(traceState.nodes, node,
                         [currentStatus |-> NextStatus(status),
                          lastStepId |-> NewStepId(ctx)]),
        !.lastStepId = NewStepId(ctx),
        !.hasCriticalError = CriticalAfter(traceState, status)]

step(ctx, node, status) ==
    \E err \in {StepError(ctx, node, status)} :
    IF err = "none"
    THEN /\ Appended < MaxLog
         /\ log' = Append(log, StepRecord(ctx.trace_id, ctx.env_id,
                                          NewStepId(ctx), node, status))
         /\ traceStates' =
                [traceStates EXCEPT ![ctx.trace_id] =
                    Admitted(traceStates[ctx.trace_id], ctx, node, status)]
         /\ consumed' = consumed \cup {ctx}
         /\ issued' = issued \cup
                {Context(ctx.trace_id, ctx.env_id, NewStepId(ctx))}
         /\ cleared' = cleared
         /\ last' = Call("step", "none",
                         Context(ctx.trace_id, ctx.env_id, NewStepId(ctx)),
                         <<>>)
         /\ UNCHANGED <<nextId, held>>
    ELSE /\ traceStates' =
                IF err \in Guard6Kinds
                THEN [traceStates EXCEPT ![ctx.trace_id] =
                         RejectedAtGuard6(traceStates[ctx.trace_id], node)]
                ELSE traceStates
         /\ last' = Call("step", err, NoContext, <<>>)
         /\ UNCHANGED <<log, nextId, consumed, issued, cleared, held>>

(***************************************************************************)
(* replay                                                                  *)
(***************************************************************************)
\* slip: the step_id difference is taken the wrong way round
ReplayCompare_Descending(a, b) ==
    IF a.type = "env" THEN 0 - 1
    ELSE IF b.type = "env" THEN 1
    ELSE b.step_id - a.step_id

\* the comparator passed to sort
ReplayCompare(a, b) ==
    IF a.type = "env" THEN 0 - 1
    ELSE IF b.type = "env" THEN 1
    ELSE a.step_id - b.step_id

\* log.filter(x => x.trace_id === traceId)
ReplayFilter(traceId) == SelectSeq(log, LAMBDA x : x.trace_id = traceId)

\* Array.prototype.sort is stable: an insertion sort driven by the comparator
RECURSIVE InsertPos(_, _, _)
InsertPos(sorted, x, j) ==
    IF j = 0 THEN 0
    ELSE IF ReplayCompare(sorted[j], x) > 0 THEN InsertPos(sorted, x, j - 1)
    ELSE j

RECURSIVE SortRecords(_)
SortRecords(s) ==
    IF Len(s) <= 1 THEN s
    ELSE LET pre == SortRecords(SubSeq(s, 1, Len(s) - 1))
             x == s[Len(s)]
             p == InsertPos(pre, x, Len(pre))
         IN SubSeq(pre, 1, p) \o <<x>> \o SubSeq(pre, p + 1, Len(pre))

ReplayResult(traceId) == SortRecords(ReplayFilter(traceId))

\* the traceIds replay is called with: a non-string value (0 - 1), the empty
\* string (0) and the strings of createEnv
ReplayInputs == (0 - 1)..MaxTraces

\* !traceId || typeof traceId !== 'string'
ReplayRejected(traceId) == traceId = 0 \/ traceId < 0

replay(traceId) ==
    /\ last' = IF ReplayRejected(traceId)
               THEN Call("replay", "InvalidArgument", NoContext, <<>>)
               ELSE Call("replay", "none", NoContext, ReplayResult(traceId))
    /\ UNCHANGED <<log, traceStates, nextId, consumed, issued, cleared, held>>

(***************************************************************************)
(* clearTraces                                                             *)
(***************************************************************************)
\* slip: the table is not cleared
clearTraces_KeepsTable ==
    /\ log' = <<>>
    /\ cleared' = issued
    /\ last' = Call("clearTraces", "none", NoContext, <<>>)
    /\ UNCHANGED <<traceStates, nextId, consumed, issued, held>>

clearTraces ==
    /\ log' = <<>>
    /\ traceStates' = <<>>
    /\ cleared' = issued
    /\ last' = Call("clearTraces", "none", NoContext, <<>>)
    /\ UNCHANGED <<nextId, consumed, issued, held>>

(***************************************************************************)
(* getAllTraces, getActiveTraces                                           *)
(***************************************************************************)
\* slip: the log array itself is returned
GetAllTraces_ReturnsLog == LogArray

\* [...log]
GetAllTraces == NewArray(log)

getAllTraces ==
    /\ last' = [Call("getAllTraces", "none", NoContext, log)
                    EXCEPT !.array = GetAllTraces]
    /\ UNCHANGED <<log, traceStates, nextId, consumed, issued, cleared, held>>

\* the keys of a Map in insertion order; the trace_ids are inserted in the
\* order of the allocator
RECURSIVE Keys(_)
Keys(S) ==
    IF S = {} THEN <<>>
    ELSE LET k == CHOOSE x \in S : \A y \in S : x <= y
         IN <<k>> \o Keys(S \ {k})

\* Array.from(traceStates.keys())
GetActiveTraces == Keys(DOMAIN traceStates)

getActiveTraces ==
    /\ last' = [Call("getActiveTraces", "none", NoContext, <<>>)
                    EXCEPT !.ids = GetActiveTraces]
    /\ UNCHANGED <<log, traceStates, nextId, consumed, issued, cleared, held>>

\* the caller keeps the array that replay or getAllTraces has just returned
keep ==
    /\ last.op \in {"replay", "getAllTraces"}
    /\ last.err = "none"
    /\ held # [array |-> last.array, seen |-> last.records]
    /\ held' = [array |-> last.array, seen |-> last.records]
    /\ UNCHANGED <<log, traceStates, nextId, last, consumed, issued, cleared>>

(***************************************************************************)
(* getStats                                                                *)
(***************************************************************************)
\* slip: the step count is taken from the node table
TraceSummary_StepsFromNodes(trace_id, state) ==
    [trace_id |-> trace_id,
     env_id |-> state.env_id,
     steps |-> Cardinality(DOMAIN state.nodes),
     nodes |-> Cardinality(DOMAIN state.nodes),
     hasError |-> state.hasCriticalError]

\* the summary of one entry of traceStates
TraceSummary(trace_id, state) ==
    [trace_id |-> trace_id,
     env_id |-> state.env_id,
     steps |-> state.lastStepId,
     nodes |-> Cardinality(DOMAIN state.nodes),
     hasError |-> state.hasCriticalError]

\* the object getStats returns; the array of summaries is kept as a function
\* of the trace_id
GetStats ==
    [totalRecords |-> Len(log),
     activeTraces |-> Cardinality(DOMAIN traceStates),
     traces |-> [t \in DOMAIN traceStates |->
                    TraceSummary(t, traceStates[t])]]

getStats ==
    /\ last' = [Call("getStats", "none", NoContext, <<>>)
                    EXCEPT !.stats = GetStats]
    /\ UNCHANGED <<log, traceStates, nextId, consumed, issued, cleared, held>>

(***************************************************************************)
(* Inputs of step.  A call that one of guards 1 to 5 rejects throws before *)
(* node and status are read, and its outcome is the same for every node    *)
(* and status: one node and one status are drawn for it.                   *)
(***************************************************************************)
CallInputs(ctx) ==
    IF ContextError(ctx) = "none"
    THEN Nodes \X Statuses
    ELSE {<<"validate", "enter">>}

(***************************************************************************)
(* Specification                                                           *)
(***************************************************************************)
Init ==
    /\ log = <<>>
    /\ traceStates = <<>>
    /\ nextId = 0
    /\ last = Call("init", "none", NoContext, <<>>)
    /\ consumed = {}
    /\ issued = {}
    /\ cleared = {}
    /\ held = [array |-> NewArray(<<>>), seen |-> <<>>]

Next ==
    \/ \E payload \in Payloads : createEnv(payload)
    \/ \E ctx \in ContextInputs :
           \E c \in CallInputs(ctx) : step(ctx, c[1], c[2])
    \/ \E traceId \in ReplayInputs : replay(traceId)
    \/ clearTraces
    \/ getStats

Spec == Init /\ [][Next]_vars

\* the callers keep the arrays they are returned and call step with the
\* Contexts they were issued, on one node
KeepNext ==
    \/ \E payload \in {"object", "null"} : createEnv(payload)
    \/ \E ctx \in issued :
           \E status \in Statuses : step(ctx, "validate", status)
    \/ \E traceId \in ReplayInputs : replay(traceId)
    \/ clearTraces
    \/ getStats
    \/ getAllTraces
    \/ getActiveTraces
    \/ keep

KeepSpec == Init /\ [][KeepNext]_vars

\* the callers call step only with Contexts the module has returned to
\* them, on every node and with every status
IssuedNext ==
    \/ \E payload \in {"object", "null"} : createEnv(payload)
    \/ \E ctx \in issued :
           \E node \in Nodes, status \in Statuses : step(ctx, node, status)
    \/ clearTraces

IssuedSpec == Init /\ [][IssuedNext]_vars

(***************************************************************************)
(* Properties                                                              *)
(***************************************************************************)
TraceIds == 1..MaxTraces

\* the StepRecords of trace t in l, in log order
StepsOf(l, t) == SelectSeq(l, LAMBDA r : r.type = "step" /\ r.trace_id = t)

\* a step with status error has been admitted on trace t
ErrorAdmitted(l, t) ==
    \E i \in 1..Len(l) :
        l[i].type = "step" /\ l[i].trace_id = t /\ l[i].status = "error"

\* C1: for every trace, the step_id values of its StepRecords, in log order,
\* are exactly 1, 2, ..., n.
C1_DenseStepIds ==
    \A t \in TraceIds :
        \A i \in 1..Len(StepsOf(log, t)) : StepsOf(log, t)[i].step_id = i

C1_Witness ==
    \E t \in TraceIds : Len(StepsOf(log, t)) >= 3

\* C2: a step call that is rejected leaves the Trace State Table and the
\* Record Log exactly as they were.
C2_RejectedStepChangesNothing ==
    [][(last'.op = "step" /\ last'.err # "none")
           => (log' = log /\ traceStates' = traceStates)]_vars

\* C3: once an error step has been admitted on a trace, and for as long as
\* the trace exists, its critical-error flag is true and no further
\* StepRecord of the trace is appended.
C3_TerminatedTraceIsClosed ==
    [][\A t \in DOMAIN traceStates' :
           /\ ErrorAdmitted(log', t) => traceStates'[t].hasCriticalError
           /\ ErrorAdmitted(log, t) => StepsOf(log', t) = StepsOf(log, t)]_vars

C3_Witness ==
    \E t \in DOMAIN traceStates :
        /\ ErrorAdmitted(log, t)
        /\ traceStates[t].hasCriticalError
        /\ last.op = "step"
        /\ last.err = "TraceTerminated"

\* the Context names trace t, which exists
Names(ctx, t) ==
    ctx.kind = "object" /\ ctx.trace_id = t /\ t \in DOMAIN traceStates

\* the Context is the current Context of trace t
Current(ctx, t) ==
    /\ Names(ctx, t)
    /\ ctx.env_id = traceStates[t].env_id
    /\ ctx.step_id = IntId(traceStates[t].lastStepId)

\* C4 as stated: once an error step has been admitted on a trace, every
\* step call whose Context names that trace fails with TraceTerminated.
C4_AnyContextFailsTerminated ==
    \A t \in DOMAIN traceStates :
        ErrorAdmitted(log, t) =>
            \A ctx \in Contexts :
                Names(ctx, t) =>
                    \A node \in Nodes, status \in Statuses :
                        StepError(ctx, node, status) = "TraceTerminated"

\* C4 amended: once an error step has been admitted on a trace, every step
\* call with the current Context of that trace fails with TraceTerminated,
\* and a call with any other Context naming the trace fails with the kind
\* of the earlier guard it violates.
C4_CurrentContextFailsTerminated ==
    \A t \in DOMAIN traceStates :
        ErrorAdmitted(log, t) =>
            \A ctx \in Contexts :
                Names(ctx, t) =>
                    \A node \in Nodes, status \in Statuses :
                        IF Current(ctx, t)
                        THEN StepError(ctx, node, status) = "TraceTerminated"
                        ELSE StepError(ctx, node, status) \in
                                 {"InvalidContext", "EnvMismatch",
                                  "InvalidStepId", "OutOfSequence"}

C4_Witness ==
    /\ last.op = "step"
    /\ last.err = "TraceTerminated"
    /\ \E t \in DOMAIN traceStates :
           ErrorAdmitted(log, t) /\ Len(StepsOf(log, t)) = 2

\* C5 as stated: a step call with a Context that an earlier successful step
\* call consumed always fails with OutOfSequence.
C5_StaleContextOutOfSequence ==
    \A ctx \in consumed : \A node \in Nodes, status \in Statuses :
        StepError(ctx, node, status) = "OutOfSequence"

\* C5 amended: a step call with a consumed Context is never admitted; it
\* fails with OutOfSequence while the trace exists and with UnknownTrace
\* once clearTraces has removed the trace.
C5_StaleContextRejected ==
    \A ctx \in consumed : \A node \in Nodes, status \in Statuses :
        StepError(ctx, node, status) =
            IF ctx.trace_id \in DOMAIN traceStates
            THEN "OutOfSequence"
            ELSE "UnknownTrace"

C5_Witness ==
    /\ last.op = "step"
    /\ last.err = "OutOfSequence"
    /\ \E ctx \in consumed : ctx.trace_id \in DOMAIN traceStates

\* the StepRecords of node n of trace t, in log order
NodeSteps(t, n) ==
    SelectSeq(log, LAMBDA r : r.type = "step" /\ r.trace_id = t /\ r.node = n)

\* C6: in the admitted steps of a node, an exit directly follows an enter
\* and an enter never directly follows an enter.
C6_EnterExitPairing ==
    \A t \in TraceIds : \A n \in Nodes :
        \A i \in 1..Len(NodeSteps(t, n)) :
            /\ NodeSteps(t, n)[i].status = "exit"
                   => (i > 1 /\ NodeSteps(t, n)[i - 1].status = "enter")
            /\ (i > 1 /\ NodeSteps(t, n)[i].status = "enter")
                   => NodeSteps(t, n)[i - 1].status # "enter"

C6_Witness ==
    \E t \in TraceIds : \E n \in Nodes :
        /\ Len(NodeSteps(t, n)) = 3
        /\ NodeSteps(t, n)[2].status = "exit"
        /\ NodeSteps(t, n)[3].status = "enter"

\* number of occurrences of x in the sequence s
Count(s, x) == Cardinality({i \in 1..Len(s) : s[i] = x})

Range(s) == {s[i] : i \in 1..Len(s)}

\* C7: replay(t) returns exactly the log records of trace t (nothing for a
\* trace without records), the EnvRecord first and then the StepRecords in
\* strictly increasing step_id order.
C7_ReplayOrdered ==
    \A t \in 1..(MaxTraces + 1) :
        LET r == ReplayResult(t) IN
        /\ \A x \in Range(log) \cup Range(r) :
               Count(r, x) = IF x.trace_id = t THEN Count(log, x) ELSE 0
        /\ r # <<>> => r[1].type = "env"
        /\ \A i \in 2..Len(r) :
               /\ r[i].type = "step"
               /\ i > 2 => r[i - 1].step_id < r[i].step_id

C7_Witness ==
    /\ last.op = "replay"
    /\ last.err = "none"
    /\ Len(last.records) = 3
    /\ Len(log) = 4

\* C8: a successful step returns the Context passed in with step_id larger
\* by one, and a Context returned by createEnv or step carries the number
\* of StepRecords of its trace, which is the trace's stored lastStepId.
C8_ReturnedContext ==
    [][/\ (last'.op = "step" /\ last'.err = "none")
           => \E ctx \in consumed' \ consumed :
                  /\ last'.ret.kind = "object"
                  /\ last'.ret.trace_id = ctx.trace_id
                  /\ last'.ret.env_id = ctx.env_id
                  /\ last'.ret.step_id = IntId(ctx.step_id.v + 1)
       /\ (last'.op \in {"createEnv", "step"} /\ last'.err = "none")
           => /\ last'.ret.trace_id \in DOMAIN traceStates'
              /\ last'.ret.step_id =
                     IntId(Len(StepsOf(log', last'.ret.trace_id)))
              /\ last'.ret.step_id =
                     IntId(traceStates'[last'.ret.trace_id].lastStepId)]_vars

C8_Witness ==
    /\ last.op = "step"
    /\ last.err = "none"
    /\ last.ret.step_id = IntId(2)

\* C9: a createEnv call that returns appends one EnvRecord (with the valid
\* payload), inserts one Trace State under a trace_id not in the table
\* (lastStepId 0, no critical error, no nodes, the new env_id), leaves the
\* other records and Trace States alone, and returns {trace_id, env_id, 0}.
C9_CreateEnvEffect ==
    [][(last'.op = "createEnv" /\ last'.err = "none")
           => LET ctx == last'.ret
                  rec == log'[Len(log')]
              IN /\ ctx.kind = "object"
                 /\ ctx.step_id = IntId(0)
                 /\ Len(log') = Len(log) + 1
                 /\ SubSeq(log', 1, Len(log)) = log
                 /\ rec.type = "env"
                 /\ rec.trace_id = ctx.trace_id
                 /\ rec.env_id = ctx.env_id
                 /\ ~PayloadRejected(rec.payload)
                 /\ ctx.trace_id \notin DOMAIN traceStates
                 /\ DOMAIN traceStates' =
                        DOMAIN traceStates \cup {ctx.trace_id}
                 /\ \A t \in DOMAIN traceStates :
                        traceStates'[t] = traceStates[t]
                 /\ traceStates'[ctx.trace_id].lastStepId = 0
                 /\ traceStates'[ctx.trace_id].hasCriticalError = FALSE
                 /\ DOMAIN traceStates'[ctx.trace_id].nodes = {}
                 /\ traceStates'[ctx.trace_id].env_id = ctx.env_id]_vars

C9_Witness ==
    /\ last.op = "createEnv"
    /\ last.err = "none"
    /\ Len(log) = 3
    /\ Cardinality(DOMAIN traceStates) = 2

\* the payloads that are null, not an object, or a primitive
InvalidPayloads == {"null", "string", "number"}

\* C11: createEnv with a payload that is null or not an object fails with
\* InvalidPayload and leaves the log and the table unchanged; at no time is
\* there an EnvRecord without its Trace State or a Trace State without its
\* EnvRecord.
C11_InvalidPayloadRejected ==
    [][/\ \A p \in InvalidPayloads :
              createEnv(p) => /\ last'.err = "InvalidPayload"
                              /\ log' = log
                              /\ traceStates' = traceStates
       /\ \A i \in 1..Len(log') :
              log'[i].type = "env" =>
                  /\ log'[i].payload \notin InvalidPayloads
                  /\ log'[i].trace_id \in DOMAIN traceStates'
       /\ \A t \in DOMAIN traceStates' :
              \E i \in 1..Len(log') :
                  log'[i].type = "env" /\ log'[i].trace_id = t]_vars

C11_Witness ==
    /\ last.op = "createEnv"
    /\ last.err = "InvalidPayload"
    /\ Len(log) >= 2
    /\ traceStates # <<>>

\* the status of node n of the Trace State ts: idle when never referenced
NodeStatus(ts, n) ==
    IF n \in DOMAIN ts.nodes THEN ts.nodes[n].currentStatus ELSE "idle"

\* the step_id is not a non-negative integer
Malformed(s) == ~(s.k = "int" /\ s.v >= 0)

\* the guards, numbered as in the specification, that the call violates
\* (guards 3 to 6 are about the Trace State and say nothing without one)
Violated(ctx, node, status) ==
    IF ctx.kind # "object" THEN {1}
    ELSE {g \in {1} : ctx.trace_id \in {0, 0 - 1} \/ ctx.env_id \in {0, 0 - 1}}
         \cup {g \in {2} : ctx.trace_id \notin DOMAIN traceStates}
         \cup (IF ctx.trace_id \notin DOMAIN traceStates THEN {}
               ELSE LET ts == traceStates[ctx.trace_id] IN
                    {g \in {3} : ctx.env_id # ts.env_id}
                    \cup {g \in {4} : ctx.step_id # IntId(ts.lastStepId)}
                    \cup {g \in {5} : ts.hasCriticalError}
                    \cup {g \in {6} :
                             IF status = "enter"
                             THEN NodeStatus(ts, node) = "entered"
                             ELSE NodeStatus(ts, node) # "entered"})

\* the failure kind of guard g for the call
KindOf(g, ctx, status) ==
    CASE g = 1 -> "InvalidContext"
      [] g = 2 -> "UnknownTrace"
      [] g = 3 -> "EnvMismatch"
      [] g = 4 -> IF Malformed(ctx.step_id) THEN "InvalidStepId"
                  ELSE "OutOfSequence"
      [] g = 5 -> "TraceTerminated"
      [] g = 6 -> IF status = "enter" THEN "DoubleEnter"
                  ELSE IF status = "exit" THEN "ExitWithoutEnter"
                  ELSE "ErrorWithoutEnter"

Least(S) == CHOOSE g \in S : \A h \in S : g <= h

\* C12: a step call that violates more than one guard fails with the kind
\* of the first guard it violates, in the order context shape, trace
\* existence, identity, step sequencing (InvalidStepId, then
\* OutOfSequence), terminal lock, node state machine.
C12_FirstViolatedGuardWins ==
    \A ctx \in Contexts : \A node \in Nodes, status \in Statuses :
        Cardinality(Violated(ctx, node, status)) > 1 =>
            StepError(ctx, node, status) =
                KindOf(Least(Violated(ctx, node, status)), ctx, status)

\* the ids a Context can carry: strings of createEnv and a non-string value
CarriedIds == ((0 - 1)..MaxTraces) \ {0}

\* C13: a step call whose Context carries the trace_id of an existing trace
\* and an env_id other than the one stored for that trace fails with
\* EnvMismatch, whatever its step_id, node and status.
C13_ForeignEnvIdRejected ==
    \A t \in DOMAIN traceStates :
        \A e \in CarriedIds \ {traceStates[t].env_id} :
            \* guards 1 to 5 read neither node nor status: every step_id
            /\ \A s \in StepIdInputs :
                   ContextError([kind |-> "object", trace_id |-> t,
                                 env_id |-> e, step_id |-> s]) = "EnvMismatch"
            \* the whole call, at the step_id the trace expects
            /\ \A node \in Nodes, status \in Statuses :
                   StepError(Context(t, e, traceStates[t].lastStepId),
                             node, status) = "EnvMismatch"

\* a step carrying the env_id of another live trace has just been rejected
C13_Witness ==
    /\ last.op = "step"
    /\ last.err = "EnvMismatch"
    /\ Cardinality(DOMAIN traceStates) >= 2
    /\ \E t \in DOMAIN traceStates : traceStates[t].lastStepId >= 1

\* C14: clearTraces leaves the log and the table empty, and from then on a
\* step call with a Context issued before the clear fails with UnknownTrace
\* for every node and status.
C14_ClearedContextsUnknown ==
    /\ last.op = "clearTraces" => log = <<>> /\ traceStates = <<>>
    /\ \A ctx \in cleared : \A node \in Nodes, status \in Statuses :
           StepError(ctx, node, status) = "UnknownTrace"

\* a trace with an admitted step was cleared, another trace was created
\* since, and a step call has just failed with UnknownTrace
C14_Witness ==
    /\ \E ctx \in cleared : ctx.step_id.v >= 1
    /\ traceStates # <<>>
    /\ last.op = "step"
    /\ last.err = "UnknownTrace"

\* C15 as stated: two callers hold the current Context of a trace and each
\* makes one step call with it, one after the other; exactly one of the two
\* calls fails with OutOfSequence.
C15_ExactlyOneOutOfSequence ==
    [][last'.op = "step" =>
          \A ctx \in issued :
              Current(ctx, ctx.trace_id) =>
                  \A n1 \in Nodes, s1 \in Statuses :
                      step(ctx, n1, s1) =>
                          \A n2 \in Nodes, s2 \in Statuses :
                              (last'.err = "OutOfSequence")
                                  # (StepError(ctx, n2, s2)' = "OutOfSequence")]_vars

\* the failure kinds a step call with a current Context can end with
CurrentContextKinds == {"none", "TraceTerminated"} \cup Guard6Kinds

\* what the outcome kept in last tells about the call that was made: an
\* admitted call is the one whose record ends the log, and a node state
\* machine failure names the status
MayHaveBeen(l, lg, ctx, node, status) ==
    /\ l.err = "none" =>
           /\ l.ret.trace_id = ctx.trace_id
           /\ lg[Len(lg)].node = node
           /\ lg[Len(lg)].status = status
    /\ l.err \in Guard6Kinds => l.err = KindOf(6, ctx, status)

\* C15 amended: the call that runs first never fails with OutOfSequence, and
\* the second call fails with OutOfSequence exactly when the first one was
\* admitted; when the first call is rejected (TraceTerminated or a node state
\* machine failure) neither call fails with OutOfSequence.
C15_SecondOutOfSequenceIffFirstAdmitted ==
    /\ [](\A ctx \in issued :
              Current(ctx, ctx.trace_id) =>
                  \A n1 \in Nodes, s1 \in Statuses :
                      StepError(ctx, n1, s1) \in CurrentContextKinds)
    /\ [][last'.op = "step" /\ last'.err \in CurrentContextKinds =>
             \A ctx \in issued :
                 (/\ last'.err = "none" => ctx.trace_id = last'.ret.trace_id
                  /\ Current(ctx, ctx.trace_id)
                  /\ \E n1 \in Nodes, s1 \in Statuses :
                         /\ MayHaveBeen(last', log', ctx, n1, s1)
                         /\ step(ctx, n1, s1)) =>
                     \A n2 \in Nodes, s2 \in Statuses :
                         (StepError(ctx, n2, s2)' = "OutOfSequence")
                             <=> (last'.err = "none")]_vars

\* a Context has been consumed by one caller and the other caller's call
\* with the same Context has just failed with OutOfSequence
C15_Witness ==
    /\ last.op = "step"
    /\ last.err = "OutOfSequence"
    /\ \E ctx \in consumed :
           /\ ctx.trace_id \in DOMAIN traceStates
           /\ traceStates[ctx.trace_id].lastStepId = ctx.step_id.v + 1
           /\ ~traceStates[ctx.trace_id].hasCriticalError

\* what the node state machine of the specification decides for a status
\* requested on a node whose current status is ns
NodeRule(ns, status) ==
    CASE status = "enter" -> IF ns # "entered" THEN "none" ELSE "DoubleEnter"
      [] status = "exit" -> IF ns = "entered" THEN "none"
                            ELSE "ExitWithoutEnter"
      [] status = "error" -> IF ns = "entered" THEN "none"
                             ELSE "ErrorWithoutEnter"

\* the status a node has after its last admitted step, idle without one
StatusByLog(t, n) ==
    LET steps == NodeSteps(t, n) IN
    IF steps = <<>> THEN "idle"
    ELSE CASE steps[Len(steps)].status = "enter" -> "entered"
           [] steps[Len(steps)].status = "exit" -> "exited"
           [] steps[Len(steps)].status = "error" -> "errored"

\* C16: for a step call whose Context passes guards 1 to 5, the outcome is
\* decided by the node's current status alone (a node never referenced
\* counts as idle): enter is admitted exactly when the node is not entered,
\* exit and error exactly when it is entered, with DoubleEnter,
\* ExitWithoutEnter and ErrorWithoutEnter as the rejections; and the status
\* of a node is the one its last admitted step gave it: entered, exited or
\* errored.
C16_NodeStatusDecides ==
    /\ \A ctx \in issued :
           ContextError(ctx) = "none" =>
               \A node \in Nodes, status \in Statuses :
                   StepError(ctx, node, status) =
                       NodeRule(NodeStatus(traceStates[ctx.trace_id], node),
                                status)
    /\ \A t \in DOMAIN traceStates : \A n \in Nodes :
           NodeStatus(traceStates[t], n) = StatusByLog(t, n)

\* one node has been exited, another one is entered, and entering it again
\* has just been rejected
C16_Witness ==
    /\ last.op = "step"
    /\ last.err = "DoubleEnter"
    /\ \E t \in DOMAIN traceStates :
           /\ ~traceStates[t].hasCriticalError
           /\ \E n \in Nodes : NodeStatus(traceStates[t], n) = "exited"
           /\ \E n \in Nodes : NodeStatus(traceStates[t], n) = "entered"

\* C17: a step call whose Context has the trace_id and the env_id of an
\* existing trace and a non-negative integer step_id other than the trace's
\* lastStepId, lower or higher, fails with OutOfSequence for every node and
\* status, whether or not the trace has a critical error.
C17_WrongStepIdOutOfSequence ==
    \A t \in DOMAIN traceStates :
        \A n \in (0..MaxLog) \ {traceStates[t].lastStepId} :
            \* guards 1 to 5 read neither node nor status
            /\ ContextError(Context(t, traceStates[t].env_id, n))
                   = "OutOfSequence"
            \* the whole call, one below and one above the expected step_id
            /\ n \in {traceStates[t].lastStepId - 1,
                      traceStates[t].lastStepId + 1} =>
                   \A node \in Nodes, status \in Statuses :
                       StepError(Context(t, traceStates[t].env_id, n),
                                 node, status) = "OutOfSequence"

\* every live trace is terminated and a step call has just failed with
\* OutOfSequence
C17_Witness ==
    /\ last.op = "step"
    /\ last.err = "OutOfSequence"
    /\ traceStates # <<>>
    /\ \A t \in DOMAIN traceStates : traceStates[t].hasCriticalError

\* C18: a step call whose Context passes guards 1 to 3 and whose step_id is
\* not a non-negative integer (negative, not a number, NaN, or a number
\* with a fraction) fails with InvalidStepId.
C18_MalformedStepIdInvalid ==
    \A t \in DOMAIN traceStates :
        \A s \in StepIdInputs :
            Malformed(s) =>
                \A node \in Nodes, status \in Statuses :
                    StepError([kind |-> "object", trace_id |-> t,
                               env_id |-> traceStates[t].env_id,
                               step_id |-> s], node, status) = "InvalidStepId"

\* the sum of f over the set S
RECURSIVE Sum(_, _)
Sum(f, S) ==
    IF S = {} THEN 0
    ELSE LET x == CHOOSE y \in S : TRUE IN f[x] + Sum(f, S \ {x})

\* C19: getStats reports totalRecords equal to the log length, activeTraces
\* equal to the number of Trace States, and for each trace the number of
\* its StepRecords in the log and whether the log holds an error StepRecord
\* of it; totalRecords is activeTraces plus the sum of the step counts.
C19_StatsMatchLog ==
    last.op = "getStats" =>
        LET stats == last.stats IN
        /\ stats.totalRecords = Len(log)
        /\ stats.activeTraces = Cardinality(DOMAIN traceStates)
        /\ DOMAIN stats.traces = DOMAIN traceStates
        /\ \A t \in DOMAIN stats.traces :
               /\ stats.traces[t].trace_id = t
               /\ stats.traces[t].steps = Len(StepsOf(log, t))
               /\ stats.traces[t].hasError <=> ErrorAdmitted(log, t)
        /\ stats.totalRecords =
               stats.activeTraces
                   + Sum([t \in DOMAIN stats.traces |-> stats.traces[t].steps],
                         DOMAIN stats.traces)

\* getStats has just returned with two traces, one terminated with two steps
\* and one without steps
C19_Witness ==
    /\ last.op = "getStats"
    /\ last.stats.activeTraces = 2
    /\ last.stats.totalRecords = 4
    /\ \E t \in DOMAIN last.stats.traces :
           last.stats.traces[t].hasError /\ last.stats.traces[t].steps = 2

\* the node names in the admitted StepRecords of trace t
AdmittedNodes(t) ==
    {log[i].node : i \in {j \in 1..Len(log) :
                              log[j].type = "step" /\ log[j].trace_id = t}}

\* C20: the node count getStats reports for a trace is the number of
\* distinct node names in the admitted StepRecords of that trace, also
\* after rejected step calls.
C20_NodeCountMatchesLog ==
    last.op = "getStats" =>
        \A t \in DOMAIN last.stats.traces :
            last.stats.traces[t].nodes = Cardinality(AdmittedNodes(t))

\* C21: replay, getStats, getAllTraces and getActiveTraces leave the log and
\* the table as they are, and the array a caller has kept from replay or
\* getAllTraces has the elements it was returned with whatever calls run
\* afterwards.
C21_ReadersChangeNothing ==
    /\ [](Elements(held.array) = held.seen)
    /\ [][(\/ \E traceId \in ReplayInputs : replay(traceId)
            \/ getStats
            \/ getAllTraces
            \/ getActiveTraces)
              => log' = log /\ traceStates' = traceStates]_vars

\* a caller has kept an array of two records or more from getAllTraces or
\* replay, and the log has been cleared and written to since
C21_Witness ==
    /\ Len(held.seen) >= 2
    /\ log # <<>>
    /\ \A i \in 1..Len(log) : \A j \in 1..Len(held.seen) :
           log[i] # held.seen[j]

\* C22: the set of traces in the table changes only by a createEnv that
\* returns, which adds exactly one trace, and by clearTraces, which removes
\* all; a step call, admitted or rejected, keeps the set of traces, the
\* env_id stored for each trace and every node entry of each trace.
C22_OnlyCreateAndClearChangeTraces ==
    [][/\ (last'.op = "createEnv" /\ last'.err = "none") =>
              /\ DOMAIN traceStates \subseteq DOMAIN traceStates'
              /\ Cardinality(DOMAIN traceStates') =
                     Cardinality(DOMAIN traceStates) + 1
       /\ last'.op = "clearTraces" => DOMAIN traceStates' = {}
       /\ (/\ ~(last'.op = "createEnv" /\ last'.err = "none")
           /\ last'.op # "clearTraces")
              => DOMAIN traceStates' = DOMAIN traceStates
       /\ last'.op = "step" =>
              \A t \in DOMAIN traceStates :
                  /\ traceStates'[t].env_id = traceStates[t].env_id
                  /\ DOMAIN traceStates[t].nodes
                         \subseteq DOMAIN traceStates'[t].nodes]_vars

\* with two traces in the table, one of them with two node entries, a step
\* call has just been rejected by the node state machine
C22_Witness ==
    /\ last.op = "step"
    /\ last.err \in Guard6Kinds
    /\ Cardinality(DOMAIN traceStates) = 2
    /\ \E t \in DOMAIN traceStates :
           Cardinality(DOMAIN traceStates[t].nodes) = 2

\* the positions of the records of trace t in the log
RecordsOf(t) == {i \in 1..Len(log) : log[i].trace_id = t}

\* C23: the trace_ids in the log are exactly the keys of the table; each
\* trace has exactly one EnvRecord, which comes before all its StepRecords,
\* and every record of the trace carries the env_id stored in its Trace
\* State.
C23_LogAndTableAgree ==
    /\ {log[i].trace_id : i \in 1..Len(log)} = DOMAIN traceStates
    /\ \A t \in DOMAIN traceStates :
           /\ Cardinality({i \in RecordsOf(t) : log[i].type = "env"}) = 1
           /\ \A i, j \in RecordsOf(t) :
                  log[i].type = "env" /\ log[j].type = "step" => i < j
           /\ \A i \in RecordsOf(t) :
                  log[i].env_id = traceStates[t].env_id

\* two traces created one after the other, each with a StepRecord
C23_Witness ==
    /\ Cardinality(DOMAIN traceStates) = 2
    /\ \A t \in DOMAIN traceStates :
           \E i \in RecordsOf(t) : log[i].type = "step"
    /\ log[1].trace_id # log[2].trace_id
    /\ log[2].type = "env"

\* the positions of the error StepRecords among the StepRecords of trace t
ErrorSteps(t) ==
    {i \in 1..Len(StepsOf(log, t)) : StepsOf(log, t)[i].status = "error"}

\* the nodes of trace t whose status is errored
ErroredNodes(t) ==
    {n \in DOMAIN traceStates[t].nodes :
        traceStates[t].nodes[n].currentStatus = "errored"}

\* C24: a trace has at most one StepRecord with status error, and that
\* record is the last StepRecord of the trace; the critical-error flag is
\* true exactly when there is one, and then exactly one node is errored;
\* otherwise no node is errored.
C24_OneFinalErrorRecord ==
    \A t \in DOMAIN traceStates :
        /\ Cardinality(ErrorSteps(t)) <= 1
        /\ \A i \in ErrorSteps(t) : i = Len(StepsOf(log, t))
        /\ traceStates[t].hasCriticalError <=> ErrorSteps(t) # {}
        /\ traceStates[t].hasCriticalError
               <=> Cardinality(ErroredNodes(t)) = 1
        /\ ~traceStates[t].hasCriticalError => ErroredNodes(t) = {}

\* a trace with two nodes has been terminated after three steps and a
\* further step call on it has just been rejected
C24_Witness ==
    /\ last.op = "step"
    /\ last.err = "TraceTerminated"
    /\ \E t \in DOMAIN traceStates :
           /\ traceStates[t].hasCriticalError
           /\ Len(StepsOf(log, t)) = 3
           /\ Cardinality(DOMAIN traceStates[t].nodes) = 2

\* the records of trace t in the log l, in log order
TraceRecords(l, t) == SelectSeq(l, LAMBDA r : r.trace_id = t)

\* the traces whose Trace State or log records differ between two states
ChangedTraces(lg1, ts1, lg2, ts2) ==
    {t \in DOMAIN ts1 \cup DOMAIN ts2 :
        \/ t \notin DOMAIN ts1
        \/ t \notin DOMAIN ts2
        \/ ts1[t] # ts2[t]
        \/ TraceRecords(lg1, t) # TraceRecords(lg2, t)}

\* C25: a step call whose Context names trace A, admitted or rejected,
\* leaves the Trace State and the log records of every other trace as they
\* are, and a step call with a Context issued for another trace has the
\* same outcome after it as before it, for every node and status.  (An
\* admitted call returns a Context with the trace_id it was given; a
\* rejected call changes the state only when its Context passes guards 1
\* to 5.)
C25_TracesIsolated ==
    [][(last'.op = "step" /\ <<log, traceStates>>' # <<log, traceStates>>) =>
          \A changed \in
                  {ChangedTraces(log, traceStates, log', traceStates')} :
              /\ last'.err = "none" => changed \subseteq {last'.ret.trace_id}
              /\ last'.err # "none" =>
                     \A ctx \in ContextInputs :
                         ContextError(ctx) = "none" =>
                             \A node \in Nodes, status \in Statuses :
                                 step(ctx, node, status) =>
                                     changed \subseteq {ctx.trace_id}
              /\ \A ctx \in issued :
                     ctx.trace_id \notin changed =>
                         /\ ContextError(ctx)' = ContextError(ctx)
                         /\ ContextError(ctx) = "none" =>
                                \A node \in Nodes, status \in Statuses :
                                    StepError(ctx, node, status)'
                                        = StepError(ctx, node, status)]_vars

\* the steps of two traces have been interleaved and a step has just been
\* admitted
C25_Witness ==
    /\ last.op = "step"
    /\ last.err = "none"
    /\ Cardinality(DOMAIN traceStates) = 2
    /\ \A t \in DOMAIN traceStates : traceStates[t].lastStepId >= 1

\* the largest step_id among the StepRecords of trace t, 0 without one
MaxStepId(t) ==
    LET ids == {StepsOf(log, t)[i].step_id : i \in 1..Len(StepsOf(log, t))}
    IN IF ids = {} THEN 0 ELSE CHOOSE m \in ids : \A k \in ids : k <= m

\* C26: every node entry of a trace is idle with lastStepId -1 when the log
\* has no StepRecord of that node, and otherwise has the status (entered,
\* exited, errored) and the step_id of the node's latest StepRecord; the
\* trace's lastStepId is the largest step_id among its StepRecords, 0 when
\* there are none.
C26_TraceStateAgreesWithLog ==
    \A t \in DOMAIN traceStates :
        /\ traceStates[t].lastStepId = MaxStepId(t)
        /\ \A n \in DOMAIN traceStates[t].nodes :
               LET entry == traceStates[t].nodes[n]
                   steps == NodeSteps(t, n)
               IN IF steps = <<>>
                  THEN entry.currentStatus = "idle"
                       /\ entry.lastStepId = 0 - 1
                  ELSE /\ entry.lastStepId = steps[Len(steps)].step_id
                       /\ entry.currentStatus =
                              CASE steps[Len(steps)].status = "enter"
                                       -> "entered"
                                [] steps[Len(steps)].status = "exit"
                                       -> "exited"
                                [] steps[Len(steps)].status = "error"
                                       -> "errored"

\* a trace has a node entry without StepRecords, left by a rejected call,
\* and a node with two StepRecords
C26_Witness ==
    \E t \in DOMAIN traceStates :
        /\ \E n \in DOMAIN traceStates[t].nodes : NodeSteps(t, n) = <<>>
        /\ \E n \in DOMAIN traceStates[t].nodes : Len(NodeSteps(t, n)) = 2

====
